---- MODULE Spec2Model ----
(***************************************************************************)
(* A model of the IMOD <-> CETS CTF converter (imod/converters/ctf.py and   *)
(* imod/utils/utils.py) and of the first steps of the tilt-series converter *)
(* (imod/converters/tilt_series.py).                                        *)
(*                                                                          *)
(* Numbers.  A Python float is modelled as a fixed-point number: the        *)
(* integer n stands for n/1000 (12.5 nm is 12500, 90 degrees is 90000).     *)
(* Every token of the modelled files is an even number of thousandths, so   *)
(* the reducer's "/ 2" is exact.  Sequences are 1-based here and 0-based in *)
(* Python: PyAt does the translation.                                       *)
(*                                                                          *)
(* Errors.  A Python exception is modelled by the name the specification    *)
(* gives it: "UnsupportedFormat" (ValueError, ctf.py:110),                  *)
(* "ColumnCountMismatch" (Exception, ctf.py:327/352/384/418/458),           *)
(* "LengthMismatch" (Exception, ctf.py:132/180), "CountMismatch"            *)
(* (Exception, ctf.py:48) and "IndexError" (a list index out of range).     *)
(***************************************************************************)
EXTENDS Integers, Sequences, FiniteSets, TLC

VARIABLES
    defocus_file,       \* the .defocus file: NoFile or its lines (token sequences)
    ts_n_imgs,          \* number of images of the tilt-series stack (MRC file)
    yaml_file,          \* the output yaml file: NoFile or its blocks (records)
    md_list,            \* cets_to_imod: the records loaded from the ctf yaml file
    tilt_angle_list,    \* cets_to_imod: the tilt angles
    pc,                 \* where the running call is
    out_yaml_file,      \* imod_to_cets: its out_yaml_file argument
    defocusFileFlag,    \* _parse_defocus_file: local defocusFileFlag
    defocus_u_dict,     \* _parse_defocus_file: the four series
    defocus_v_dict,
    defocus_angle_dict,
    phase_shift_dict,
    n_imgs,             \* _parse_defocus_file: local n_imgs (Unread before 115)
    i,                  \* _parse_defocus_file: loop index
    ctf_md_list,        \* _parse_defocus_file: local ctf_md_list
    ret,                \* what the call returned (NoValue: nothing)
    err,                \* the exception the call raised ("none": nothing)
    std_in,             \* standarize_defocus: its arguments
    std_out,            \* standarize_defocus: its result
    xf_file,            \* ImodTiltSeries.imod_to_cets: its xf_file argument
    even_file_name,     \* ImodTiltSeries.imod_to_cets: its even_file_name argument
    odd_file_name,      \* ImodTiltSeries.imod_to_cets: its odd_file_name argument
    lists,              \* one iteration of the loop of _parse_defocus_file on
                        \*   its own: the four lists looked up for the image
    raw,                \*   and what the iteration computed from them
    tlt_file,           \* parse_tlt_file: the .tlt file, NoFile or its lines
    tlt_out,            \* parse_tlt_file: what it returned (NoValue: nothing)
    yaml_outcome        \* _write_ctf_yaml: what the write of the running call
                        \*   met (NoValue: no write attempted), with the file
                        \*   as it was before

vars == <<defocus_file, ts_n_imgs, yaml_file, md_list, tilt_angle_list, pc,
          out_yaml_file, defocusFileFlag, defocus_u_dict, defocus_v_dict,
          defocus_angle_dict, phase_shift_dict, n_imgs, i, ctf_md_list, ret,
          err, std_in, std_out, xf_file, even_file_name, odd_file_name,
          lists, raw, tlt_file, tlt_out, yaml_outcome>>

\* The lists of one iteration taken on its own, and its outcome.
iteration == <<lists, raw>>

\* The tilt-angle file being parsed and the result of the parse.
tlt_vars == <<tlt_file, tlt_out>>

\* The arguments of ImodTiltSeries.imod_to_cets.
ts_args == <<xf_file, even_file_name, odd_file_name>>

(***************************************************************************)
(* Bounds of the model.                                                     *)
(***************************************************************************)
MaxRows == 2
MaxLen == 3
MaxImgs == 2

(***************************************************************************)
(* Fixed-point numbers.                                                     *)
(***************************************************************************)
Unit == 10 * 10 * 10
Num(x) == x * Unit

\* An absent file, value or result is <<>>; a present one is <<it>>.
NoFile == <<>>
NoValue == <<>>
Some(x) == <<x>>
Unread == 0 - 1
None == "None"
EmptyDict == <<>>

\* int(x) of a float: truncation toward zero.
PyInt(x) == IF x >= 0 THEN x \div Unit ELSE -((-x) \div Unit)

\* list[k] with Python's 0-based index, negative k counting from the end.
PyInRange(list, k) == -Len(list) <= k /\ k < Len(list)
PyAt(list, k) == IF k >= 0 THEN list[k + 1] ELSE list[Len(list) + k + 1]

\* vector.pop(): the list without its last element.
PyPop(vector) == SubSeq(vector, 1, Len(vector) - 1)

\* dictionary.get(index, [])
DictGet(dictionary, index) ==
    IF index \in DOMAIN dictionary THEN dictionary[index] ELSE <<>>

\* dictionary.setdefault(index, []).append(value)
append_to_dict(dictionary, index, value) ==
    IF index \in DOMAIN dictionary
    THEN [dictionary EXCEPT ![index] = Append(@, value)]
    ELSE [k \in DOMAIN dictionary \cup {index} |->
            IF k = index THEN <<value>> ELSE dictionary[k]]

\* Mutant: the range stops before end, for index in range(start, end).
RECURSIVE AppendRange_exclusive(_, _, _, _)
AppendRange_exclusive(dictionary, start, end, value) ==
    IF start >= end THEN dictionary
    ELSE AppendRange_exclusive(append_to_dict(dictionary, start, value),
                               start + 1, end, value)

\* for index in range(start, end + 1): _append_to_dict(dictionary, index, value)
RECURSIVE AppendRange(_, _, _, _)
AppendRange(dictionary, start, end, value) ==
    IF start > end THEN dictionary
    ELSE AppendRange(append_to_dict(dictionary, start, value), start + 1, end, value)

(***************************************************************************)
(* Flag detector and table reader.                                          *)
(***************************************************************************)
\* The first token of line 0 is an integer literal: int() of it is its value.
\* Mutant: the header's flag is read before the second line is looked at.
get_defocus_file_flag_header_first(lines) ==
    IF Len(lines) = 1 THEN 0
    ELSE PyInt(lines[1][1])

get_defocus_file_flag(lines) ==
    IF Len(lines) = 1 THEN 0
    ELSE IF Len(lines[2]) = 5 THEN 0
    ELSE PyInt(lines[1][1])

\* Mutant: a first line that is data keeps its last token (the mode).
TableLine_keep_mode(lines, index) ==
    LET vector == lines[index + 1] IN
    IF index = 0 /\ Len(lines) = 1 THEN <<vector>>
    ELSE IF index = 0 /\ Len(lines[2]) = 5 THEN <<vector>>
    ELSE IF index = 0 /\ Len(lines[2]) # 5 THEN <<>>
    ELSE <<vector>>

\* Mutant: the first line of a file of several lines is always left out.
TableLine_drop_header(lines, index) ==
    LET vector == lines[index + 1] IN
    IF index = 0 /\ Len(lines) = 1 THEN <<PyPop(vector)>>
    ELSE IF index = 0 THEN <<>>
    ELSE <<vector>>

\* What the loop body adds to defocusTable for the line at (0-based) index.
TableLine(lines, index) ==
    LET vector == lines[index + 1] IN
    IF index = 0 /\ Len(lines) = 1 THEN <<PyPop(vector)>>
    ELSE IF index = 0 /\ Len(lines[2]) = 5 THEN <<PyPop(vector)>>
    ELSE IF index = 0 /\ Len(lines[2]) # 5 THEN <<>>
    ELSE <<vector>>

RECURSIVE TableFrom(_, _)
TableFrom(lines, index) ==
    IF index >= Len(lines) THEN <<>>
    ELSE TableLine(lines, index) \o TableFrom(lines, index + 1)

defocus_file_to_table(lines) == TableFrom(lines, 0)

(***************************************************************************)
(* Per-flag refactorers.  Each returns [err, val]: val is what the Python   *)
(* method returns (a dictionary for flag 0, a tuple of dictionaries for the *)
(* others) when err = "none".  A row shorter than the columns the loop body *)
(* reads raises IndexError.                                                 *)
(***************************************************************************)
Raise(e) == [err |-> e, val |-> NoValue]
Return(v) == [err |-> "none", val |-> v]

RECURSIVE Rows_flag_0(_, _, _)
Rows_flag_0(table, k, acc) ==
    IF k > Len(table) \/ acc.err # "none" THEN acc
    ELSE LET element == table[k] IN
         IF Len(element) < 5 THEN Raise("IndexError")
         ELSE LET start == PyInt(element[1])
                  end == PyInt(element[2])
                  defocus == element[5] * 10
              IN Rows_flag_0(table, k + 1,
                     Return(AppendRange(acc.val, start, end, defocus)))

refactor_ctf_flag_0(table) ==
    IF Len(table) = 0 THEN Raise("IndexError")
    ELSE IF Len(table[1]) # 5 THEN Raise("ColumnCountMismatch")
    ELSE Rows_flag_0(table, 1, Return(EmptyDict))

\* Mutant: the angle of a row is appended at its start index only.
RECURSIVE Rows_flag_1_angle_at_start(_, _, _)
Rows_flag_1_angle_at_start(table, k, acc) ==
    IF k > Len(table) \/ acc.err # "none" THEN acc
    ELSE LET element == table[k] IN
         IF Len(element) < 7 THEN Raise("IndexError")
         ELSE LET start == PyInt(element[1])
                  end == PyInt(element[2])
                  defocus_u == element[5] * 10
                  defocus_v == element[6] * 10
                  defocus_angle == element[7]
              IN Rows_flag_1_angle_at_start(table, k + 1,
                     Return(<<AppendRange(acc.val[1], start, end, defocus_u),
                              AppendRange(acc.val[2], start, end, defocus_v),
                              AppendRange(acc.val[3], start, start, defocus_angle)>>))

RECURSIVE Rows_flag_1(_, _, _)
Rows_flag_1(table, k, acc) ==
    IF k > Len(table) \/ acc.err # "none" THEN acc
    ELSE LET element == table[k] IN
         IF Len(element) < 7 THEN Raise("IndexError")
         ELSE LET start == PyInt(element[1])
                  end == PyInt(element[2])
                  defocus_u == element[5] * 10
                  defocus_v == element[6] * 10
                  defocus_angle == element[7]
              IN Rows_flag_1(table, k + 1,
                     Return(<<AppendRange(acc.val[1], start, end, defocus_u),
                              AppendRange(acc.val[2], start, end, defocus_v),
                              AppendRange(acc.val[3], start, end, defocus_angle)>>))

refactor_ctf_flag_1(table) ==
    IF Len(table) = 0 THEN Raise("IndexError")
    ELSE IF Len(table[1]) # 7 THEN Raise("ColumnCountMismatch")
    ELSE Rows_flag_1(table, 1, Return(<<EmptyDict, EmptyDict, EmptyDict>>))

RECURSIVE Rows_flag_4(_, _, _)
Rows_flag_4(table, k, acc) ==
    IF k > Len(table) \/ acc.err # "none" THEN acc
    ELSE LET element == table[k] IN
         IF Len(element) < 6 THEN Raise("IndexError")
         ELSE LET start == PyInt(element[1])
                  end == PyInt(element[2])
                  defocus_u == element[5] * 10
                  phase_shift == element[6]
              IN Rows_flag_4(table, k + 1,
                     Return(<<AppendRange(acc.val[1], start, end, defocus_u),
                              AppendRange(acc.val[2], start, end, phase_shift)>>))

refactor_ctf_flag_4(table) ==
    IF Len(table) = 0 THEN Raise("IndexError")
    ELSE IF Len(table[1]) # 6 THEN Raise("ColumnCountMismatch")
    ELSE Rows_flag_4(table, 1, Return(<<EmptyDict, EmptyDict>>))

RECURSIVE Rows_flag_5(_, _, _)
Rows_flag_5(table, k, acc) ==
    IF k > Len(table) \/ acc.err # "none" THEN acc
    ELSE LET element == table[k] IN
         IF Len(element) < 8 THEN Raise("IndexError")
         ELSE LET start == PyInt(element[1])
                  end == PyInt(element[2])
                  defocus_u == element[5] * 10
                  defocus_v == element[6] * 10
                  angle == element[7]
                  phase_shift == element[8]
              IN Rows_flag_5(table, k + 1,
                     Return(<<AppendRange(acc.val[1], start, end, defocus_u),
                              AppendRange(acc.val[2], start, end, defocus_v),
                              AppendRange(acc.val[3], start, end, angle),
                              AppendRange(acc.val[4], start, end, phase_shift)>>))

refactor_ctf_flag_5(table) ==
    IF Len(table) = 0 THEN Raise("IndexError")
    ELSE IF Len(table[1]) # 8 THEN Raise("ColumnCountMismatch")
    ELSE Rows_flag_5(table, 1,
             Return(<<EmptyDict, EmptyDict, EmptyDict, EmptyDict>>))

\* Mutant: the phase shift is read from the last column (the cut-on frequency).
RECURSIVE Rows_flag_37_cut_on(_, _, _)
Rows_flag_37_cut_on(table, k, acc) ==
    IF k > Len(table) \/ acc.err # "none" THEN acc
    ELSE LET element == table[k] IN
         IF Len(element) < 9 THEN Raise("IndexError")
         ELSE LET start == PyInt(element[1])
                  end == PyInt(element[2])
                  defocus_u == element[5] * 10
                  defocus_v == element[6] * 10
                  angle == element[7]
                  phase_shift == element[9]
              IN Rows_flag_37_cut_on(table, k + 1,
                     Return(<<AppendRange(acc.val[1], start, end, defocus_u),
                              AppendRange(acc.val[2], start, end, defocus_v),
                              AppendRange(acc.val[3], start, end, angle),
                              AppendRange(acc.val[4], start, end, phase_shift)>>))

\* The loop body reads columns 0, 1 and 4..7 only: column 8 is never read.
RECURSIVE Rows_flag_37(_, _, _)
Rows_flag_37(table, k, acc) ==
    IF k > Len(table) \/ acc.err # "none" THEN acc
    ELSE LET element == table[k] IN
         IF Len(element) < 8 THEN Raise("IndexError")
         ELSE LET start == PyInt(element[1])
                  end == PyInt(element[2])
                  defocus_u == element[5] * 10
                  defocus_v == element[6] * 10
                  angle == element[7]
                  phase_shift == element[8]
              IN Rows_flag_37(table, k + 1,
                     Return(<<AppendRange(acc.val[1], start, end, defocus_u),
                              AppendRange(acc.val[2], start, end, defocus_v),
                              AppendRange(acc.val[3], start, end, angle),
                              AppendRange(acc.val[4], start, end, phase_shift)>>))

\* Returns a tuple of FOUR dictionaries (ctf.py:482-487).
refactor_ctf_flag_37(table) ==
    IF Len(table) = 0 THEN Raise("IndexError")
    ELSE IF Len(table[1]) # 9 THEN Raise("ColumnCountMismatch")
    ELSE Rows_flag_37(table, 1,
             Return(<<EmptyDict, EmptyDict, EmptyDict, EmptyDict>>))

load_ctf_file(lines, flag) ==
    LET ctf_info_imod_table == defocus_file_to_table(lines) IN
    IF flag = 0 THEN refactor_ctf_flag_0(ctf_info_imod_table)
    ELSE IF flag = 1 THEN refactor_ctf_flag_1(ctf_info_imod_table)
    ELSE IF flag = 4 THEN refactor_ctf_flag_4(ctf_info_imod_table)
    ELSE IF flag = 5 THEN refactor_ctf_flag_5(ctf_info_imod_table)
    ELSE IF flag = 37 THEN refactor_ctf_flag_37(ctf_info_imod_table)
    ELSE Raise("UnsupportedFormat")

\* a, b, ... = value: the tuple must hold exactly n values, else ValueError
\* ("not enough values to unpack"), named "UnpackError" here.
Unpack(r, n) ==
    IF r.err # "none" THEN r
    ELSE IF Len(r.val) # n THEN Raise("UnpackError")
    ELSE r

\* _parse_defocus_file, lines 75-113: the flag, then the four series (those a
\* flag does not produce stay the dict() of lines 76-81).
\* Returns [err, flag, u, v, angle, phase].
Series(flag, r, u, v, angle, phase) ==
    IF r.err # "none"
    THEN [err |-> r.err, flag |-> flag, u |-> EmptyDict, v |-> EmptyDict,
          angle |-> EmptyDict, phase |-> EmptyDict]
    ELSE [err |-> "none", flag |-> flag,
          u |-> IF u = 0 THEN r.val ELSE r.val[u],
          v |-> IF v = 0 THEN EmptyDict ELSE r.val[v],
          angle |-> IF angle = 0 THEN EmptyDict ELSE r.val[angle],
          phase |-> IF phase = 0 THEN EmptyDict ELSE r.val[phase]]

\* Mutant: no final else, an unsupported flag leaves the four dict() and goes on.
parse_load_no_else(lines) ==
    LET flag == get_defocus_file_flag(lines) IN
    IF flag = 0 THEN Series(flag, load_ctf_file(lines, flag), 0, 0, 0, 0)
    ELSE IF flag = 1 THEN Series(flag, Unpack(load_ctf_file(lines, flag), 3), 1, 2, 3, 0)
    ELSE IF flag = 4 THEN Series(flag, Unpack(load_ctf_file(lines, flag), 2), 1, 0, 0, 2)
    ELSE IF flag = 5 THEN Series(flag, Unpack(load_ctf_file(lines, flag), 4), 1, 2, 3, 4)
    ELSE IF flag = 37 THEN Series(flag, Unpack(load_ctf_file(lines, flag), 5), 1, 2, 3, 4)
    ELSE Series(flag, Return(EmptyDict), 0, 0, 0, 0)

parse_load(lines) ==
    LET flag == get_defocus_file_flag(lines) IN
    IF flag = 0 THEN Series(flag, load_ctf_file(lines, flag), 0, 0, 0, 0)
    ELSE IF flag = 1 THEN Series(flag, Unpack(load_ctf_file(lines, flag), 3), 1, 2, 3, 0)
    ELSE IF flag = 4 THEN Series(flag, Unpack(load_ctf_file(lines, flag), 2), 1, 0, 0, 2)
    ELSE IF flag = 5 THEN Series(flag, Unpack(load_ctf_file(lines, flag), 4), 1, 2, 3, 4)
    ELSE IF flag = 37 THEN Series(flag, Unpack(load_ctf_file(lines, flag), 5), 1, 2, 3, 4)
    ELSE Series(flag, Raise("UnsupportedFormat"), 0, 0, 0, 0)

(***************************************************************************)
(* EMX standardizer (utils.py:255-277).  Returns <<u, v, angle>>.           *)
(***************************************************************************)
\* Mutant: the exchange is made when defocus_v >= defocus_u.
standarize_defocus_ge(defocus_u, defocus_v, defocus_angle) ==
    LET swap == defocus_v >= defocus_u
        angle1 == IF swap THEN defocus_angle + Num(90) ELSE defocus_angle
    IN <<IF swap THEN defocus_v ELSE defocus_u,
         IF swap THEN defocus_u ELSE defocus_v,
         IF angle1 >= Num(180) THEN angle1 - Num(180)
         ELSE IF angle1 < 0 THEN angle1 + Num(180) ELSE angle1>>

\* Mutant: the exchange leaves the angle as it is.
standarize_defocus_swap_only(defocus_u, defocus_v, defocus_angle) ==
    LET swap == defocus_v > defocus_u
    IN <<IF swap THEN defocus_v ELSE defocus_u,
         IF swap THEN defocus_u ELSE defocus_v,
         IF defocus_angle >= Num(180) THEN defocus_angle - Num(180)
         ELSE IF defocus_angle < 0 THEN defocus_angle + Num(180)
         ELSE defocus_angle>>

\* Mutant: the angle is not brought back below 180.
standarize_defocus_nowrap(defocus_u, defocus_v, defocus_angle) ==
    LET swap == defocus_v > defocus_u
        angle1 == IF swap THEN defocus_angle + Num(90) ELSE defocus_angle
    IN <<IF swap THEN defocus_v ELSE defocus_u,
         IF swap THEN defocus_u ELSE defocus_v,
         IF angle1 < 0 THEN angle1 + Num(180) ELSE angle1>>

\* Mutant: the angle is wrapped before the 90 degrees of the exchange are added.
standarize_defocus_wrap_first(defocus_u, defocus_v, defocus_angle) ==
    LET swap == defocus_v > defocus_u
        out_defocus_u == IF swap THEN defocus_v ELSE defocus_u
        out_defocus_v == IF swap THEN defocus_u ELSE defocus_v
        angle1 == IF defocus_angle >= Num(180) THEN defocus_angle - Num(180)
                  ELSE IF defocus_angle < 0 THEN defocus_angle + Num(180)
                  ELSE defocus_angle
        angle2 == IF swap THEN angle1 + Num(90) ELSE angle1
    IN <<out_defocus_u, out_defocus_v, angle2>>

standarize_defocus(defocus_u, defocus_v, defocus_angle) ==
    LET swap == defocus_v > defocus_u
        out_defocus_u == IF swap THEN defocus_v ELSE defocus_u
        out_defocus_v == IF swap THEN defocus_u ELSE defocus_v
        angle1 == IF swap THEN defocus_angle + Num(90) ELSE defocus_angle
        angle2 == IF angle1 >= Num(180) THEN angle1 - Num(180)
                  ELSE IF angle1 < 0 THEN angle1 + Num(180)
                  ELSE angle1
    IN <<out_defocus_u, out_defocus_v, angle2>>

(***************************************************************************)
(* Central-value reducer: one iteration of the loop of _parse_defocus_file  *)
(* (ctf.py:118-210).  Returns [err, val]: val is the CTFMetadata record.    *)
(***************************************************************************)
\* CTFMetadata(...): defocus_handedness keeps its default, -1.
CTFMetadata(u, v, angle, phase) ==
    [defocus_u |-> u, defocus_v |-> v, defocus_angle |-> angle,
     phase_shift |-> phase, defocus_handedness |-> -1]

\* The indices the middle estimation of a list reads, for a length len:
\* middlePoint and, when len is even, middlePoint - 1.
MiddleReadable(list, len) ==
    LET middlePoint == len \div 2 IN
    /\ PyInRange(list, middlePoint)
    /\ (len % 2 = 0) => PyInRange(list, middlePoint - 1)

\* Mutant: for an even length the upper middle element alone, no mean.
Middle_upper(list, len) ==
    LET middlePoint == len \div 2 IN PyAt(list, middlePoint)

\* The middle estimation of a list, the middle point taken from length len.
Middle(list, len) ==
    LET middlePoint == len \div 2 IN
    IF len % 2 = 0
    THEN (PyAt(list, middlePoint) + PyAt(list, middlePoint - 1)) \div 2
    ELSE PyAt(list, middlePoint)

\* Mutant: an image with no defocus value gets the default values.
reduce_defocus_default(defocus_u_list, defocus_v_list, defocus_angle_list) ==
    IF defocus_u_list # <<>> /\ defocus_v_list # <<>>
    THEN LET len_defocus_u_list == Len(defocus_u_list) IN
         IF (len_defocus_u_list + Len(defocus_v_list) + Len(defocus_angle_list)) % 3 # 0
         THEN Raise("LengthMismatch")
         ELSE IF ~ /\ MiddleReadable(defocus_u_list, len_defocus_u_list)
                   /\ MiddleReadable(defocus_v_list, len_defocus_u_list)
                   /\ MiddleReadable(defocus_angle_list, len_defocus_u_list)
         THEN Raise("IndexError")
         ELSE Return(<<Middle(defocus_u_list, len_defocus_u_list),
                       Middle(defocus_v_list, len_defocus_u_list),
                       Middle(defocus_angle_list, len_defocus_u_list)>>)
    ELSE LET defocus_list == IF defocus_u_list # <<>> THEN defocus_u_list
                             ELSE defocus_v_list
             len_defocus_list == Len(defocus_list)
         IN IF len_defocus_list = 0 THEN Return(<<0, 0, 0>>)
            ELSE Return(<<Middle(defocus_list, len_defocus_list),
                          Middle(defocus_list, len_defocus_list), 0>>)

\* Lines 125-171: [err, val = <<defocus_u, defocus_v, defocus_angle>>].
reduce_defocus(defocus_u_list, defocus_v_list, defocus_angle_list) ==
    IF defocus_u_list # <<>> /\ defocus_v_list # <<>>
    THEN LET len_defocus_u_list == Len(defocus_u_list) IN
         IF (len_defocus_u_list + Len(defocus_v_list) + Len(defocus_angle_list)) % 3 # 0
         THEN Raise("LengthMismatch")
         ELSE IF ~ /\ MiddleReadable(defocus_u_list, len_defocus_u_list)
                   /\ MiddleReadable(defocus_v_list, len_defocus_u_list)
                   /\ MiddleReadable(defocus_angle_list, len_defocus_u_list)
         THEN Raise("IndexError")
         ELSE Return(<<Middle(defocus_u_list, len_defocus_u_list),
                       Middle(defocus_v_list, len_defocus_u_list),
                       Middle(defocus_angle_list, len_defocus_u_list)>>)
    ELSE LET defocus_list == IF defocus_u_list # <<>> THEN defocus_u_list
                             ELSE defocus_v_list
             len_defocus_list == Len(defocus_list)
         IN IF ~MiddleReadable(defocus_list, len_defocus_list)
            THEN Raise("IndexError")
            ELSE Return(<<Middle(defocus_list, len_defocus_list),
                          Middle(defocus_list, len_defocus_list), 0>>)

\* Mutant: the lengths are not compared before the middle estimation.
reduce_phase_shift_no_check(defocus_u_list, phase_shift_list, defocus_angle_list) ==
    IF phase_shift_list # <<>>
    THEN Return(Middle(phase_shift_list, Len(phase_shift_list)))
    ELSE Return(0)

\* Lines 173-198: [err, val = phase_shift].
reduce_phase_shift(defocus_u_list, phase_shift_list, defocus_angle_list) ==
    IF phase_shift_list # <<>>
    THEN IF (Len(defocus_u_list) + Len(phase_shift_list) + Len(defocus_angle_list)) % 3 # 0
         THEN Raise("LengthMismatch")
         ELSE Return(Middle(phase_shift_list, Len(phase_shift_list)))
    ELSE Return(0)

reduce_image(defocus_u_list, defocus_v_list, phase_shift_list, defocus_angle_list) ==
    LET d == reduce_defocus(defocus_u_list, defocus_v_list, defocus_angle_list)
        p == reduce_phase_shift(defocus_u_list, phase_shift_list, defocus_angle_list)
    IN IF d.err # "none" THEN d
       ELSE IF p.err # "none" THEN p
       ELSE LET s == standarize_defocus(d.val[1], d.val[2], d.val[3])
            IN Return(CTFMetadata(s[1], s[2], s[3], p.val))

(***************************************************************************)
(* Writing the yaml output (ctf.py:489-508, utils.py:248-252).  A block of  *)
(* the file is modelled by the record it dumps.  The write either succeeds  *)
(* (the old file is unlinked, a new one holds one block per record) or an   *)
(* I/O error is caught: at unlink (file untouched), at open (old file gone) *)
(* or during the dump of block k+1 (k blocks written).                      *)
(* Returns the set of [ok, file] outcomes.                                  *)
(***************************************************************************)
\* Mutant: the file is opened for appending without being removed first.
write_ctf_yaml_append(old_file, cets_ctf_md_list, yaml_file_arg) ==
    IF yaml_file_arg = None THEN {[ok |-> TRUE, file |-> old_file]}
    ELSE LET old_blocks == IF old_file = NoFile THEN <<>> ELSE old_file[1] IN
         {[ok |-> TRUE, file |-> Some(old_blocks \o cets_ctf_md_list)]}
         \cup {[ok |-> FALSE, file |-> old_file]}
         \cup {[ok |-> FALSE, file |-> Some(old_blocks \o SubSeq(cets_ctf_md_list, 1, k))] :
                 k \in 0..(Len(cets_ctf_md_list) - 1)}

write_ctf_yaml(old_file, cets_ctf_md_list, yaml_file_arg) ==
    IF yaml_file_arg = None THEN {[ok |-> TRUE, file |-> old_file]}
    ELSE {[ok |-> TRUE, file |-> Some(cets_ctf_md_list)]}
         \cup {[ok |-> FALSE, file |-> old_file], [ok |-> FALSE, file |-> NoFile]}
         \cup {[ok |-> FALSE, file |-> Some(SubSeq(cets_ctf_md_list, 1, k))] :
                 k \in 0..(Len(cets_ctf_md_list) - 1)}

(***************************************************************************)
(* The defocus files the model reads.  A data row is                        *)
(* <<start, end, tilt, tilt, col4, ..., col(width-1)>>; a file is a header   *)
(* line "<flag> 0 0.0 0.0 0.0 3" followed by 0..MaxRows rows, or 1..MaxRows *)
(* rows whose first carries the estimation mode as an extra last token.     *)
(* The rows of a file are W columns wide, except that the last row of a     *)
(* file of several rows may be one column narrower or wider.  Header flag 2 *)
(* stands for the unsupported flags.                                        *)
(***************************************************************************)
Widths == 5..9
HeaderFlags == {0, 1, 2, 4, 5, 37}
Ranges == {r \in (1..MaxImgs) \X (1..MaxImgs) : r[1] <= r[2]}
\* <<col4, col5, col6, col7, col8>> of a row: the rows of a file carry these
\* two patterns in turn, starting with either.
Patterns == <<<<12500, 10000, 30000, 5000, 7000>>,
              <<10000, 12500, 120000, 3000, 8000>>>>
Tilt == Num(-60)
Mode == Num(3)

Row(range, pattern, width) ==
    <<Num(range[1]), Num(range[2]), Tilt, Tilt>> \o SubSeq(pattern, 1, width - 4)

Header(flag) == <<Num(flag), 0, 0, 0, 0, Mode>>

Tables ==
    UNION {{[k \in 1..n |-> Row(ranges[k], Patterns[((k + shift) % 2) + 1],
                                IF k = n /\ n > 1 THEN wlast ELSE w)] :
              ranges \in [1..n -> Ranges], shift \in 0..1} :
           <<n, w, wlast>> \in {t \in (1..MaxRows) \X Widths \X Widths :
                                  /\ t[3] \in {t[2] - 1, t[2], t[2] + 1}
                                  /\ (t[1] = 1 => t[3] = t[2])}}

Files ==
    {<<Header(f)>> \o t : f \in HeaderFlags, t \in Tables \cup {<<>>}}
    \cup {<<Append(t[1], Mode)>> \o SubSeq(t, 2, Len(t)) : t \in Tables}

(***************************************************************************)
(* imod_to_cets (ctf.py:22-32, 71-213), one action per step.                *)
(***************************************************************************)
\* No call of ImodTiltSeries.imod_to_cets: its three file arguments are None.
NoTsArgs ==
    /\ xf_file = NoFile
    /\ even_file_name = NoFile
    /\ odd_file_name = NoFile

\* No tilt-angle file parsed.
NoTlt ==
    /\ tlt_file = NoFile
    /\ tlt_out = NoValue

\* No iteration taken on its own.
NoIteration ==
    /\ lists = NoValue
    /\ raw = NoValue

Locals ==
    /\ defocusFileFlag = Unread
    /\ defocus_u_dict = EmptyDict
    /\ defocus_v_dict = EmptyDict
    /\ defocus_angle_dict = EmptyDict
    /\ phase_shift_dict = EmptyDict
    /\ n_imgs = Unread
    /\ i = 0
    /\ ctf_md_list = <<>>
    /\ ret = NoValue
    /\ err = "none"

Init ==
    /\ defocus_file \in {Some(f) : f \in Files}
    /\ ts_n_imgs \in 1..MaxImgs
    /\ yaml_file = NoFile
    /\ md_list = <<>>
    /\ tilt_angle_list = <<>>
    /\ pc = "idle"
    /\ out_yaml_file = None
    /\ Locals
    /\ NoTlt
    /\ yaml_outcome = NoValue
    /\ NoTsArgs
    /\ NoIteration
    /\ std_in = NoValue
    /\ std_out = NoValue

\* The call: ics.imod_to_cets(out_yaml_file=out).
ImodToCets(out) ==
    /\ pc = "idle"
    /\ defocus_file # NoFile
    /\ pc' = "parse"
    /\ out_yaml_file' = out
    /\ UNCHANGED ts_args
    /\ UNCHANGED tlt_vars
    /\ UNCHANGED yaml_outcome
    /\ UNCHANGED iteration
    /\ UNCHANGED <<defocus_file, ts_n_imgs, yaml_file, md_list, tilt_angle_list,
                   defocusFileFlag, defocus_u_dict, defocus_v_dict,
                   defocus_angle_dict, phase_shift_dict, n_imgs, i, ctf_md_list,
                   ret, err, std_in, std_out>>

\* Lines 75-113: detect the flag, load the series or raise.
LoadSeries ==
    /\ pc = "parse"
    /\ LET r == parse_load(defocus_file[1]) IN
        /\ defocusFileFlag' = r.flag
        /\ defocus_u_dict' = r.u
        /\ defocus_v_dict' = r.v
        /\ defocus_angle_dict' = r.angle
        /\ phase_shift_dict' = r.phase
        /\ err' = r.err
        /\ pc' = IF r.err = "none" THEN "loaded" ELSE "raised"
    /\ UNCHANGED ts_args
    /\ UNCHANGED tlt_vars
    /\ UNCHANGED yaml_outcome
    /\ UNCHANGED iteration
    /\ UNCHANGED <<defocus_file, ts_n_imgs, yaml_file, md_list, tilt_angle_list,
                   out_yaml_file, n_imgs, i, ctf_md_list, ret, std_in, std_out>>

\* Mutant: the image count is one short.
GetTsNoImgs_short ==
    /\ pc = "loaded"
    /\ n_imgs' = ts_n_imgs - 1
    /\ ctf_md_list' = <<>>
    /\ i' = 1
    /\ pc' = "loop"
    /\ UNCHANGED ts_args
    /\ UNCHANGED tlt_vars
    /\ UNCHANGED yaml_outcome
    /\ UNCHANGED iteration
    /\ UNCHANGED <<defocus_file, ts_n_imgs, yaml_file, md_list, tilt_angle_list,
                   out_yaml_file, defocusFileFlag, defocus_u_dict, defocus_v_dict,
                   defocus_angle_dict, phase_shift_dict, ret, err, std_in, std_out>>

\* Lines 115-116: n_imgs = get_ts_no_imgs(...); ctf_md_list = [].
GetTsNoImgs ==
    /\ pc = "loaded"
    /\ n_imgs' = ts_n_imgs
    /\ ctf_md_list' = <<>>
    /\ i' = 1
    /\ pc' = "loop"
    /\ UNCHANGED ts_args
    /\ UNCHANGED tlt_vars
    /\ UNCHANGED yaml_outcome
    /\ UNCHANGED iteration
    /\ UNCHANGED <<defocus_file, ts_n_imgs, yaml_file, md_list, tilt_angle_list,
                   out_yaml_file, defocusFileFlag, defocus_u_dict, defocus_v_dict,
                   defocus_angle_dict, phase_shift_dict, ret, err, std_in, std_out>>

\* Mutant: an image whose reduction fails is skipped and the loop goes on.
ReduceImage_skip ==
    /\ pc = "loop"
    /\ i <= n_imgs
    /\ LET r == reduce_image(DictGet(defocus_u_dict, i), DictGet(defocus_v_dict, i),
                             DictGet(phase_shift_dict, i),
                             DictGet(defocus_angle_dict, i)) IN
        /\ ctf_md_list' = IF r.err = "none" THEN Append(ctf_md_list, r.val)
                          ELSE ctf_md_list
        /\ i' = i + 1
        /\ UNCHANGED <<pc, err>>
    /\ UNCHANGED ts_args
    /\ UNCHANGED tlt_vars
    /\ UNCHANGED yaml_outcome
    /\ UNCHANGED iteration
    /\ UNCHANGED <<defocus_file, ts_n_imgs, yaml_file, md_list, tilt_angle_list,
                   out_yaml_file, defocusFileFlag, defocus_u_dict, defocus_v_dict,
                   defocus_angle_dict, phase_shift_dict, n_imgs, ret, std_in,
                   std_out>>

\* Lines 117-210: one iteration of the loop, for image i.
ReduceImage ==
    /\ pc = "loop"
    /\ i <= n_imgs
    /\ LET r == reduce_image(DictGet(defocus_u_dict, i), DictGet(defocus_v_dict, i),
                             DictGet(phase_shift_dict, i),
                             DictGet(defocus_angle_dict, i)) IN
        IF r.err = "none"
        THEN /\ ctf_md_list' = Append(ctf_md_list, r.val)
             /\ i' = i + 1
             /\ UNCHANGED <<pc, err>>
        ELSE /\ pc' = "raised"
             /\ err' = r.err
             /\ UNCHANGED <<ctf_md_list, i>>
    /\ UNCHANGED ts_args
    /\ UNCHANGED tlt_vars
    /\ UNCHANGED yaml_outcome
    /\ UNCHANGED iteration
    /\ UNCHANGED <<defocus_file, ts_n_imgs, yaml_file, md_list, tilt_angle_list,
                   out_yaml_file, defocusFileFlag, defocus_u_dict, defocus_v_dict,
                   defocus_angle_dict, phase_shift_dict, n_imgs, ret, std_in,
                   std_out>>

\* Mutant: an error met while writing the yaml file is not caught.
WriteYamlAndReturn_fatal ==
    /\ pc = "loop"
    /\ i > n_imgs
    /\ \E o \in write_ctf_yaml(yaml_file, ctf_md_list, out_yaml_file) :
           /\ yaml_file' = o.file
           /\ yaml_outcome' = IF out_yaml_file = None THEN NoValue
                              ELSE Some([ok |-> o.ok, before |-> yaml_file])
           /\ IF o.ok
              THEN ret' = Some(ctf_md_list) /\ pc' = "returned" /\ err' = err
              ELSE ret' = ret /\ pc' = "raised" /\ err' = "OSError"
    /\ UNCHANGED ts_args
    /\ UNCHANGED tlt_vars
    /\ UNCHANGED iteration
    /\ UNCHANGED <<defocus_file, ts_n_imgs, md_list, tilt_angle_list,
                   out_yaml_file, defocusFileFlag, defocus_u_dict, defocus_v_dict,
                   defocus_angle_dict, phase_shift_dict, n_imgs, i, ctf_md_list,
                   std_in, std_out>>

\* Lines 211-213: write the yaml file if requested, return the list.
WriteYamlAndReturn ==
    /\ pc = "loop"
    /\ i > n_imgs
    /\ \E o \in write_ctf_yaml(yaml_file, ctf_md_list, out_yaml_file) :
           /\ yaml_file' = o.file
           /\ yaml_outcome' = IF out_yaml_file = None THEN NoValue
                              ELSE Some([ok |-> o.ok, before |-> yaml_file])
    /\ ret' = Some(ctf_md_list)
    /\ pc' = "returned"
    /\ UNCHANGED ts_args
    /\ UNCHANGED tlt_vars
    /\ UNCHANGED iteration
    /\ UNCHANGED <<defocus_file, ts_n_imgs, md_list, tilt_angle_list,
                   out_yaml_file, defocusFileFlag, defocus_u_dict, defocus_v_dict,
                   defocus_angle_dict, phase_shift_dict, n_imgs, i, ctf_md_list,
                   err, std_in, std_out>>

Next ==
    \/ \E out \in {None, "out.yaml"} : ImodToCets(out)
    \/ LoadSeries
    \/ GetTsNoImgs
    \/ ReduceImage
    \/ WriteYamlAndReturn

Spec == Init /\ [][Next]_vars

(***************************************************************************)
(* standarize_defocus on its own: the arguments are drawn from bounded sets *)
(* that hold every boundary of the angle's wrap.                            *)
(***************************************************************************)
StdDefocus == {0, 100000, 125000}
StdAngles == {Num(a) : a \in {-400, -360, -271, -270, -181, -180, -90, -1, 0, 1,
                              89, 90, 179, 180, 269, 270, 359, 360, 400}}

InitStd ==
    /\ std_in \in {Some(<<u, v, a>>) : u \in StdDefocus, v \in StdDefocus,
                                        a \in StdAngles}
    /\ std_out = NoValue
    /\ pc = "std"
    /\ defocus_file = NoFile
    /\ ts_n_imgs = 0
    /\ yaml_file = NoFile
    /\ md_list = <<>>
    /\ tilt_angle_list = <<>>
    /\ out_yaml_file = None
    /\ Locals
    /\ NoTlt
    /\ yaml_outcome = NoValue
    /\ NoTsArgs
    /\ NoIteration

Standarize ==
    /\ pc = "std"
    /\ std_out' = Some(standarize_defocus(std_in[1][1], std_in[1][2], std_in[1][3]))
    /\ pc' = "std_done"
    /\ UNCHANGED ts_args
    /\ UNCHANGED tlt_vars
    /\ UNCHANGED yaml_outcome
    /\ UNCHANGED iteration
    /\ UNCHANGED <<defocus_file, ts_n_imgs, yaml_file, md_list, tilt_angle_list,
                   out_yaml_file, defocusFileFlag, defocus_u_dict, defocus_v_dict,
                   defocus_angle_dict, phase_shift_dict, n_imgs, i, ctf_md_list,
                   ret, err, std_in>>

NextStd == Standarize

SpecStd == InitStd /\ [][NextStd]_vars

(***************************************************************************)
(* cets_to_imod (ctf.py:34-69), then imod_to_cets on the file it wrote.     *)
(* md_list is what load_md_list_yaml returned.  "%.2f" and "%.1f" round to  *)
(* the nearest hundredth and tenth; float() of the token reads that number  *)
(* back.  The records and angles drawn are no decimal ties (a binary float  *)
(* is next to, never on, such a tie).                                       *)
(***************************************************************************)
\* num/den rounded to the nearest multiple of step (an exact tie to the even one).
RoundTo(num, den, step) ==
    LET q == num \div (den * step)
        r == num - q * den * step
    IN IF 2 * r < den * step THEN q * step
       ELSE IF 2 * r > den * step THEN (q + 1) * step
       ELSE IF q % 2 = 0 THEN q * step ELSE (q + 1) * step

\* Mutant: the defocus is written in angstroms, not divided by 10.
newLine_angstrom(ind, tilt_angle, ctf_md_dict) ==
    <<Num(ind), Num(ind), RoundTo(tilt_angle, 1, 10), RoundTo(tilt_angle, 1, 10),
      RoundTo(ctf_md_dict.defocus_u, 1, 100),
      RoundTo(ctf_md_dict.defocus_v, 1, 100),
      RoundTo(ctf_md_dict.defocus_angle, 1, 10)>>

\* "%i\t%i\t%.2f\t%.2f\t%.1f\t%.1f\t%.2f\n" % (ind, ind, tilt, tilt, u/10, v/10, angle)
newLine(ind, tilt_angle, ctf_md_dict) ==
    <<Num(ind), Num(ind), RoundTo(tilt_angle, 1, 10), RoundTo(tilt_angle, 1, 10),
      RoundTo(ctf_md_dict.defocus_u, 10, 100),
      RoundTo(ctf_md_dict.defocus_v, 10, 100),
      RoundTo(ctf_md_dict.defocus_angle, 1, 10)>>

\* Mutant: the image indices written start at 0 (ind = i).
defocus_lines_zero_based(mds, tilts) ==
    <<Header(1)>> \o [k \in 1..Len(mds) |-> newLine(k - 1, tilts[k], mds[k])]

\* Mutant: the phase shift is written as an eighth column under a flag-5 header.
defocus_lines_with_phase(mds, tilts) ==
    <<Header(5)>> \o [k \in 1..Len(mds) |->
                        Append(newLine(k, tilts[k], mds[k]),
                               RoundTo(mds[k].phase_shift, 1, 10))]

\* lines = ["1\t0\t0.0\t0.0\t0.0\t3\n"] + one newLine per record
defocus_lines(mds, tilts) ==
    <<Header(1)>> \o [k \in 1..Len(mds) |-> newLine(k, tilts[k], mds[k])]

UVPairs == {<<1234600, 1000400>>, <<1000400, 1234600>>, <<1234600, 1234600>>}
RtAngles == {30004, 120000, 179996, 0 - 10000}
RtPhases == {0, 5000}
MdRecords ==
    {CTFMetadata(uv[1], uv[2], a, p) : uv \in UVPairs, a \in RtAngles, p \in RtPhases}
TiltAt(k) == (k - 2) * 30002
\* A defocus file already on disk before cets_to_imod runs.
OldFile == <<Header(1), Row(<<1, 1>>, Patterns[1], 7)>>

InitRT ==
    /\ \E n \in 0..MaxImgs : md_list \in [1..n -> MdRecords]
    /\ \E n \in 1..MaxImgs : tilt_angle_list = [k \in 1..n |-> TiltAt(k)]
    /\ ts_n_imgs = Len(tilt_angle_list)
    /\ defocus_file \in {NoFile, Some(OldFile)}
    /\ yaml_file = NoFile
    /\ pc = "writer"
    /\ out_yaml_file = None
    /\ Locals
    /\ NoTlt
    /\ yaml_outcome = NoValue
    /\ NoTsArgs
    /\ NoIteration
    /\ std_in = NoValue
    /\ std_out = NoValue

\* Mutant: the output file is opened (and so emptied) before the counts are compared.
CetsToImod_open_first ==
    /\ pc = "writer"
    /\ IF Len(md_list) # Len(tilt_angle_list)
       THEN /\ pc' = "raised"
            /\ err' = "CountMismatch"
            /\ defocus_file' = Some(<<>>)
       ELSE /\ defocus_file' = Some(defocus_lines(md_list, tilt_angle_list))
            /\ pc' = "idle"
            /\ UNCHANGED err
    /\ UNCHANGED ts_args
    /\ UNCHANGED tlt_vars
    /\ UNCHANGED yaml_outcome
    /\ UNCHANGED iteration
    /\ UNCHANGED <<ts_n_imgs, yaml_file, md_list, tilt_angle_list, out_yaml_file,
                   defocusFileFlag, defocus_u_dict, defocus_v_dict,
                   defocus_angle_dict, phase_shift_dict, n_imgs, i, ctf_md_list,
                   ret, std_in, std_out>>

\* ImodCtfSeries.cets_to_imod(ctf_yaml_file, tilt_angle_list, defocus_file); on
\* success a reader is then constructed on the file written (pc = "idle").
CetsToImod ==
    /\ pc = "writer"
    /\ LET n_data_sec == Len(md_list)
           n_angles == Len(tilt_angle_list)
       IN IF n_data_sec # n_angles
          THEN /\ pc' = "raised"
               /\ err' = "CountMismatch"
               /\ UNCHANGED defocus_file
          ELSE /\ defocus_file' = Some(defocus_lines(md_list, tilt_angle_list))
               /\ pc' = "idle"
               /\ UNCHANGED err
    /\ UNCHANGED ts_args
    /\ UNCHANGED tlt_vars
    /\ UNCHANGED yaml_outcome
    /\ UNCHANGED iteration
    /\ UNCHANGED <<ts_n_imgs, yaml_file, md_list, tilt_angle_list, out_yaml_file,
                   defocusFileFlag, defocus_u_dict, defocus_v_dict,
                   defocus_angle_dict, phase_shift_dict, n_imgs, i, ctf_md_list,
                   ret, std_in, std_out>>

NextRT ==
    \/ CetsToImod
    \/ ImodToCets(None)
    \/ LoadSeries
    \/ GetTsNoImgs
    \/ ReduceImage
    \/ WriteYamlAndReturn

SpecRT == InitRT /\ [][NextRT]_vars

(***************************************************************************)
(* Vocabulary of the claims about imod_to_cets.                             *)
(***************************************************************************)
Lines == defocus_file[1]
Done == pc \in {"returned", "raised"}
Records == ret[1]
SupportedFlags == {0, 1, 4, 5, 37}

\* A header line with the flag, then at least one row, every row ncols wide.
FlagFile(flag, ncols) ==
    /\ Len(Lines) >= 2
    /\ Lines[1] = Header(flag)
    /\ \A k \in 2..Len(Lines) : Len(Lines[k]) = ncols

\* The lines of such a file whose [start, end] range holds image index img.
RowsCovering(img) ==
    {k \in 2..Len(Lines) : PyInt(Lines[k][1]) <= img /\ img <= PyInt(Lines[k][2])}

ExactCover == \A img \in 1..ts_n_imgs : Cardinality(RowsCovering(img)) = 1

\* Column c (0-based, as in the specification) of the row covering img.
Col(img, c) == Lines[CHOOSE k \in RowsCovering(img) : TRUE][c + 1]

Max(a, b) == IF a >= b THEN a ELSE b
Min(a, b) == IF a <= b THEN a ELSE b

(***************************************************************************)
(* C1 (as claimed): for a flag-4 file covering every image index by exactly *)
(* one row, imod_to_cets succeeds and record i has defocus_u = defocus_v =  *)
(* 10 x col4, defocus_angle = 0 and phase_shift = col5 of its row.          *)
(* The code raises instead: with one value per image the phase-shift check  *)
(* of line 177 sums the lengths 1 + 1 + 0, which is not a multiple of 3.    *)
(***************************************************************************)
C1_Flag4Records ==
    (Done /\ FlagFile(4, 6) /\ ExactCover) =>
        /\ pc = "returned"
        /\ Len(Records) = ts_n_imgs
        /\ \A img \in 1..ts_n_imgs :
              Records[img] = CTFMetadata(10 * Col(img, 4), 10 * Col(img, 4), 0,
                                         Col(img, 5))

(***************************************************************************)
(* C2 (as claimed): for a flag-37 file covering every image index by        *)
(* exactly one row, imod_to_cets succeeds and record i has defocus_u = 10 x *)
(* col4, defocus_v = 10 x col5, defocus_angle = col6, phase_shift = col7.   *)
(* The code raises instead: line 105 unpacks five values from the four the  *)
(* flag-37 refactorer returns.                                              *)
(***************************************************************************)
C2_Flag37Records ==
    (Done /\ FlagFile(37, 9) /\ ExactCover) =>
        /\ pc = "returned"
        /\ Len(Records) = ts_n_imgs
        /\ \A img \in 1..ts_n_imgs :
              Records[img] = CTFMetadata(10 * Col(img, 4), 10 * Col(img, 5),
                                         Col(img, 6), Col(img, 7))

(***************************************************************************)
(* C3: whenever imod_to_cets returns, the list has exactly n_images records *)
(* and the record at list position i-1 is the one reduced from the four     *)
(* series looked up at image index i.                                       *)
(***************************************************************************)
C3_OneRecordPerImage ==
    pc = "returned" =>
        /\ Len(Records) = ts_n_imgs
        /\ \A img \in 1..ts_n_imgs :
              Records[img] = reduce_image(DictGet(defocus_u_dict, img),
                                          DictGet(defocus_v_dict, img),
                                          DictGet(phase_shift_dict, img),
                                          DictGet(defocus_angle_dict, img)).val

C3_Witness ==
    /\ pc = "returned"
    /\ ts_n_imgs >= 2
    /\ Len(Records) >= 2
    /\ Records[1] # Records[2]

(***************************************************************************)
(* C4: for every input detected as flag 0, every record returned has        *)
(* defocus_v equal to defocus_u and defocus_angle equal to 0.               *)
(***************************************************************************)
C4_Flag0Plain ==
    (pc = "returned" /\ defocusFileFlag = 0) =>
        \A k \in 1..Len(Records) :
            /\ Records[k].defocus_v = Records[k].defocus_u
            /\ Records[k].defocus_angle = 0

C4_Witness ==
    /\ pc = "returned"
    /\ defocusFileFlag = 0
    /\ Len(Records) >= 2
    /\ Records[1].defocus_u # Records[2].defocus_u

EmxAngle(img) ==
    LET a == IF Col(img, 5) > Col(img, 4) THEN Col(img, 6) + Num(90)
             ELSE Col(img, 6)
    IN IF a >= Num(180) THEN a - Num(180)
       ELSE IF a < 0 THEN a + Num(180) ELSE a

ExpectedColumns(flag) ==
    CASE flag = 0 -> 5 [] flag = 1 -> 7 [] flag = 4 -> 6 [] flag = 5 -> 8
      [] flag = 37 -> 9

C8_AnyRowMismatchFails ==
    (/\ Done
     /\ defocusFileFlag \in SupportedFlags
     /\ \E k \in 1..Len(defocus_file_to_table(Lines)) :
           Len(defocus_file_to_table(Lines)[k]) # ExpectedColumns(defocusFileFlag))
    => (pc = "raised" /\ err = "ColumnCountMismatch")

(***************************************************************************)
(* C9: when the detected flag is not in {0,1,4,5,37}, imod_to_cets fails    *)
(* with the unsupported-format error before any per-image work: the image   *)
(* count is not read, no record is built, no yaml file is written and       *)
(* nothing is returned.                                                     *)
(***************************************************************************)
C9_UnsupportedFailsFirst ==
    (defocusFileFlag # Unread /\ defocusFileFlag \notin SupportedFlags) =>
        /\ pc = "raised"
        /\ err = "UnsupportedFormat"
        /\ n_imgs = Unread
        /\ ctf_md_list = <<>>
        /\ yaml_file = NoFile
        /\ ret = NoValue

C9_Witness ==
    /\ pc = "raised"
    /\ err = "UnsupportedFormat"
    /\ defocusFileFlag = 2
    /\ out_yaml_file # None

(***************************************************************************)
(* C6 (as claimed): standarize_defocus returns, for all inputs, a triple    *)
(* with defocus_u_out >= defocus_v_out and 0 <= angle_out < 180.            *)
(* The single wrap leaves an angle of 400 at 220 and one of -181 at -1.     *)
(***************************************************************************)
C6_EmxPostcondition ==
    std_out # NoValue =>
        /\ std_out[1][1] >= std_out[1][2]
        /\ 0 <= std_out[1][3]
        /\ std_out[1][3] < Num(180)

(***************************************************************************)
(* Vocabulary of the round trip.                                            *)
(***************************************************************************)
Abs(x) == IF x >= 0 THEN x ELSE -x
RoundTripDone == pc \in {"returned", "raised"} /\ err # "CountMismatch"
\* The record is in EMX form and its angle does not print as 180.00.
EmxRecord(md) ==
    /\ md.defocus_u >= md.defocus_v
    /\ 0 <= md.defocus_angle
    /\ md.defocus_angle < Num(180) - 5

(***************************************************************************)
(* C7 (as claimed): writing records with cets_to_imod and re-parsing the    *)
(* file with imod_to_cets reproduces, for every image, the same (defocus_u, *)
(* defocus_v, defocus_angle) within 2 decimal places for defocus (0.005)    *)
(* and 1 for the angle (0.05).                                              *)
(***************************************************************************)
C7_RoundTripAsClaimed ==
    RoundTripDone =>
        /\ pc = "returned"
        /\ Len(Records) = Len(md_list)
        /\ \A k \in 1..Len(md_list) :
              /\ Abs(Records[k].defocus_u - md_list[k].defocus_u) <= 5
              /\ Abs(Records[k].defocus_v - md_list[k].defocus_v) <= 5
              /\ Abs(Records[k].defocus_angle - md_list[k].defocus_angle) <= 50

(***************************************************************************)
(* C7 (amended): the re-parse returns one record per record written, and    *)
(* for every record written in EMX form (defocus_u >= defocus_v and         *)
(* 0 <= defocus_angle < 179.995) it reproduces defocus_u and defocus_v      *)
(* within 0.5 angstrom (the file keeps 1 decimal place of the value in nm)  *)
(* and defocus_angle within 0.005 (2 decimal places).                       *)
(***************************************************************************)
C7_RoundTripEmx ==
    RoundTripDone =>
        /\ pc = "returned"
        /\ Len(Records) = Len(md_list)
        /\ \A k \in 1..Len(md_list) :
              EmxRecord(md_list[k]) =>
                  /\ Abs(Records[k].defocus_u - md_list[k].defocus_u) <= 500
                  /\ Abs(Records[k].defocus_v - md_list[k].defocus_v) <= 500
                  /\ Abs(Records[k].defocus_angle - md_list[k].defocus_angle) <= 5

\* A round trip of two EMX records that rounded a defocus and an angle.
C7_Witness ==
    /\ pc = "returned"
    /\ Len(md_list) >= 2
    /\ \A k \in 1..Len(md_list) : EmxRecord(md_list[k])
    /\ Records[1].defocus_u # md_list[1].defocus_u
    /\ Records[1].defocus_angle # md_list[1].defocus_angle
    /\ Records[2].defocus_v # md_list[2].defocus_v

(***************************************************************************)
(* C10: cets_to_imod fails when the number of records differs from the      *)
(* number of tilt angles, and then the output defocus file is neither       *)
(* created nor modified.                                                    *)
(***************************************************************************)
C10_CountMismatchWritesNothing ==
    [][(pc = "writer" /\ Len(md_list) # Len(tilt_angle_list)) =>
          (pc' = "raised" /\ err' = "CountMismatch" /\ defocus_file' = defocus_file)]_vars

C10_Witness ==
    /\ pc = "raised"
    /\ err = "CountMismatch"
    /\ Len(md_list) > Len(tilt_angle_list)
    /\ defocus_file = Some(OldFile)

(***************************************************************************)
(* C11: the flag detector returns 0 when the file has exactly one line,     *)
(* returns 0 when the second line has exactly 5 tokens, and otherwise       *)
(* returns the integer parsed from the first token of line 0; the rules are *)
(* applied in that order (a one-line file, or a 5-token second line, gives  *)
(* 0 whatever the first token of line 0 is).                                *)
(***************************************************************************)
C11_FlagRules ==
    defocusFileFlag # Unread =>
        /\ Len(Lines) = 1 => defocusFileFlag = 0
        /\ (Len(Lines) > 1 /\ Len(Lines[2]) = 5) => defocusFileFlag = 0
        /\ (Len(Lines) > 1 /\ Len(Lines[2]) # 5) =>
              Num(defocusFileFlag) = Lines[1][1]

\* The second rule won over the third: a header that says 1, 5-token rows.
C11_Witness ==
    /\ defocusFileFlag = 0
    /\ Len(Lines) > 1
    /\ Len(Lines[2]) = 5
    /\ Lines[1] = Header(1)

(***************************************************************************)
(* C12: imod_to_cets is all-or-nothing: it returns a complete list of       *)
(* n_images records or it raises; when the reduction of an image fails,     *)
(* nothing is returned (no partial list) and no yaml output is written.     *)
(***************************************************************************)
C12_AllOrNothing ==
    /\ pc = "returned" => (err = "none" /\ Len(Records) = ts_n_imgs)
    /\ pc = "raised" => (ret = NoValue /\ yaml_file = NoFile)
    /\ ret # NoValue => pc = "returned"
    /\ yaml_file # NoFile => pc = "returned"

\* The reduction of image 2 failed after a record was built for image 1, in a
\* call that was asked to write a yaml file.
C12_Witness ==
    /\ pc = "raised"
    /\ i = 2
    /\ Len(ctf_md_list) = 1
    /\ out_yaml_file # None
    /\ ret = NoValue

(***************************************************************************)
(* ImodTiltSeries.imod_to_cets (tilt_series.py:61-144) up to the parsing of *)
(* the xf file.  A file argument is None (NoFile) or a path: what is on     *)
(* disk under it (kind), its suffix (ext) and, for a file, its lines.       *)
(* Line 100 unpacks two values from the array parse_xf_file returns, whose  *)
(* first axis has three entries: lines 102-144 come after that unpacking.   *)
(***************************************************************************)
MRC_MRCS_EXT == {".mrc", ".mrcs"}

Path(kind, ext, lines) == [kind |-> kind, ext |-> ext, lines |-> lines]

\* utils.py:14-39.  The error names: "FileIsNone" (ValueError, line 18),
\* "FileNotFoundError", "IsADirectoryError", "PermissionError" and
\* "InvalidExtension" (ValueError, line 36).
validate_file(filename, expected_ext) ==
    IF filename = NoFile THEN Raise("FileIsNone")
    ELSE LET p == filename[1] IN
         IF p.kind = "missing" THEN Raise("FileNotFoundError")
         ELSE IF p.kind = "dir" THEN Raise("IsADirectoryError")
         ELSE IF p.kind = "unreadable" THEN Raise("PermissionError")
         ELSE IF p.ext \notin expected_ext THEN Raise("InvalidExtension")
         ELSE Return(filename)

\* utils.py:42-55.  "EvenOddMismatch" is the ValueError of line 48.
validate_even_odd_files(even, odd) ==
    LET even_provided == even # NoFile
        odd_provided == odd # NoFile
        e == validate_file(even, MRC_MRCS_EXT)
        o == validate_file(odd, MRC_MRCS_EXT)
    IN IF even_provided # odd_provided THEN Raise("EvenOddMismatch")
       ELSE IF even_provided /\ e.err # "none" THEN e
       ELSE IF odd_provided /\ o.err # "none" THEN o
       ELSE Return(<<even, odd>>)

\* utils.py:135-155.  np.loadtxt gives a one-dimensional array for a file of
\* one line (matrix[row][0] then indexes a scalar: IndexError) and a table
\* otherwise.  The value is the 3 x 3 x n_lines array, as the sequence of its
\* three rows, each a sequence of three columns, each a sequence over the lines.
parse_xf_file(lines) ==
    LET n_lines == Len(lines)
        column(c) == [row \in 1..n_lines |-> lines[row][c]]
        constant(x) == [row \in 1..n_lines |-> x]
    IN IF n_lines = 1 THEN Raise("IndexError")
       ELSE Return(<<<<column(1), column(2), column(5)>>,
                     <<column(3), column(4), column(6)>>,
                     <<constant(0), constant(0), constant(Num(1))>>>>)

\* The lines of an xf file: a11 a12 a21 a22 tx ty.
XfRows == {<<1000, 0, 0, 1000, 0, 0>>, <<0, 0 - 1000, 1000, 0, 2000, 0 - 4000>>}
XfLines == UNION {[1..n -> XfRows] : n \in 0..MaxImgs}
XfPaths ==
    {Path("missing", ".xf", <<>>), Path("dir", ".xf", <<>>),
     Path("unreadable", ".xf", <<>>), Path("file", ".txt", <<>>)}
    \cup {Path("file", ".xf", l) : l \in XfLines}
MrcPaths ==
    {Path("file", ".mrc", <<>>), Path("file", ".txt", <<>>),
     Path("missing", ".mrc", <<>>)}

InitTS ==
    /\ xf_file \in {NoFile} \cup {Some(p) : p \in XfPaths}
    /\ even_file_name \in {NoFile} \cup {Some(p) : p \in MrcPaths}
    /\ odd_file_name \in {NoFile} \cup {Some(p) : p \in MrcPaths}
    /\ ts_n_imgs \in 1..MaxImgs
    /\ pc = "ts_call"
    /\ defocus_file = NoFile
    /\ yaml_file = NoFile
    /\ md_list = <<>>
    /\ tilt_angle_list = <<>>
    /\ out_yaml_file = None
    /\ Locals
    /\ NoTlt
    /\ yaml_outcome = NoValue
    /\ NoIteration
    /\ std_in = NoValue
    /\ std_out = NoValue

\* Lines 90-92: validate even/odd.
TsValidateEvenOdd ==
    /\ pc = "ts_call"
    /\ LET r == validate_even_odd_files(even_file_name, odd_file_name) IN
        /\ err' = r.err
        /\ pc' = IF r.err = "none" THEN "ts_xf" ELSE "raised"
    /\ UNCHANGED ts_args
    /\ UNCHANGED tlt_vars
    /\ UNCHANGED yaml_outcome
    /\ UNCHANGED iteration
    /\ UNCHANGED <<defocus_file, ts_n_imgs, yaml_file, md_list, tilt_angle_list,
                   out_yaml_file, defocusFileFlag, defocus_u_dict, defocus_v_dict,
                   defocus_angle_dict, phase_shift_dict, n_imgs, i, ctf_md_list,
                   ret, std_in, std_out>>

\* Lines 94-99: read the image info, then xf_file = validate_file(xf_file, ...).
TsValidateXf ==
    /\ pc = "ts_xf"
    /\ LET r == validate_file(xf_file, {".xf"}) IN
        /\ err' = r.err
        /\ pc' = IF r.err = "none" THEN "ts_parse" ELSE "raised"
    /\ UNCHANGED ts_args
    /\ UNCHANGED tlt_vars
    /\ UNCHANGED yaml_outcome
    /\ UNCHANGED iteration
    /\ UNCHANGED <<defocus_file, ts_n_imgs, yaml_file, md_list, tilt_angle_list,
                   out_yaml_file, defocusFileFlag, defocus_u_dict, defocus_v_dict,
                   defocus_angle_dict, phase_shift_dict, n_imgs, i, ctf_md_list,
                   ret, std_in, std_out>>

\* Line 100: in_rotation_matrix_pile, in_translation_vector_pile = parse_xf_file(xf_file)
TsParseXf ==
    /\ pc = "ts_parse"
    /\ LET r == Unpack(parse_xf_file(xf_file[1].lines), 2) IN
        /\ err' = r.err
        /\ pc' = IF r.err = "none" THEN "ts_images" ELSE "raised"
    /\ UNCHANGED ts_args
    /\ UNCHANGED tlt_vars
    /\ UNCHANGED yaml_outcome
    /\ UNCHANGED iteration
    /\ UNCHANGED <<defocus_file, ts_n_imgs, yaml_file, md_list, tilt_angle_list,
                   out_yaml_file, defocusFileFlag, defocus_u_dict, defocus_v_dict,
                   defocus_angle_dict, phase_shift_dict, n_imgs, i, ctf_md_list,
                   ret, std_in, std_out>>

NextTS ==
    \/ TsValidateEvenOdd
    \/ TsValidateXf
    \/ TsParseXf

SpecTS == InitTS /\ [][NextTS]_vars

(***************************************************************************)
(* C13 (as claimed): ImodTiltSeries.imod_to_cets called without an xf_file  *)
(* (xf_file = None) completes, the identity matrix being the alignment data *)
(* of every tilt image.  The code passes None to validate_file, which       *)
(* raises.                                                                  *)
(***************************************************************************)
C13_NoXfCompletes ==
    (/\ xf_file = NoFile
     /\ even_file_name = NoFile
     /\ odd_file_name = NoFile
     /\ pc \notin {"ts_call", "ts_xf", "ts_parse"})
    => (pc = "ts_returned" /\ err = "none")

(***************************************************************************)
(* One iteration of the loop of _parse_defocus_file (ctf.py:118-210) taken  *)
(* on its own, on four lists of 0..MaxLen values: the raw defocus_u,        *)
(* defocus_v, defocus_angle (lines 125-171) and phase_shift (173-198), then *)
(* the record built from them (200-210).                                    *)
(***************************************************************************)
\* The k-th value of a list: 1, 2, 3, ...; 1, 3, 5, ...; or 5, 3, 1, 6, ...
ListValue(pattern, k) ==
    CASE pattern = 1 -> Num(k)
      [] pattern = 2 -> Num(2 * k - 1)
      [] pattern = 3 -> Num((5 * k) % 7)

IterationLists ==
    {<<>>} \cup {[k \in 1..n |-> ListValue(pattern, k)] :
                   n \in 1..MaxLen, pattern \in 1..3}

InitIter ==
    /\ lists \in {Some([defocus_u_list |-> u, defocus_v_list |-> v,
                        phase_shift_list |-> p, defocus_angle_list |-> a]) :
                    u \in IterationLists, v \in IterationLists,
                    p \in IterationLists, a \in IterationLists}
    /\ raw = NoValue
    /\ pc = "iteration"
    /\ defocus_file = NoFile
    /\ ts_n_imgs = 0
    /\ yaml_file = NoFile
    /\ md_list = <<>>
    /\ tilt_angle_list = <<>>
    /\ out_yaml_file = None
    /\ Locals
    /\ NoTlt
    /\ yaml_outcome = NoValue
    /\ NoTsArgs
    /\ std_in = NoValue
    /\ std_out = NoValue

Iteration ==
    /\ pc = "iteration"
    /\ LET l == lists[1]
           d == reduce_defocus(l.defocus_u_list, l.defocus_v_list,
                               l.defocus_angle_list)
           p == reduce_phase_shift(l.defocus_u_list, l.phase_shift_list,
                                   l.defocus_angle_list)
           r == reduce_image(l.defocus_u_list, l.defocus_v_list,
                             l.phase_shift_list, l.defocus_angle_list)
       IN /\ raw' = Some([defocus |-> IF d.err = "none" THEN d.val ELSE NoValue,
                          phase_shift |-> IF d.err = "none" /\ p.err = "none"
                                          THEN Some(p.val) ELSE NoValue,
                          md |-> IF r.err = "none" THEN Some(r.val) ELSE NoValue])
          /\ err' = r.err
          /\ pc' = IF r.err = "none" THEN "iterated" ELSE "raised"
    /\ UNCHANGED ts_args
    /\ UNCHANGED tlt_vars
    /\ UNCHANGED yaml_outcome
    /\ UNCHANGED <<defocus_file, ts_n_imgs, yaml_file, md_list, tilt_angle_list,
                   out_yaml_file, defocusFileFlag, defocus_u_dict, defocus_v_dict,
                   defocus_angle_dict, phase_shift_dict, n_imgs, i, ctf_md_list,
                   ret, std_in, std_out, lists>>

NextIter == Iteration

SpecIter == InitIter /\ [][NextIter]_vars

(***************************************************************************)
(* Vocabulary of the claims about one iteration.                            *)
(***************************************************************************)
U == lists[1].defocus_u_list
V == lists[1].defocus_v_list
Angle == lists[1].defocus_angle_list
Phase == lists[1].phase_shift_list

\* The rule as the specification states it, on a sequence s of length L >= 1
\* (the element at the 0-based index m is s[m + 1]).
MedianOfMiddle(s) ==
    LET L == Len(s)
        m == L \div 2
    IN IF L % 2 = 0 THEN (s[m + 1] + s[m]) \div 2 ELSE s[m + 1]

(***************************************************************************)
(* C14: median-of-middle rule.  For a non-empty sequence of length L with   *)
(* m = floor(L/2), the value is the average of the elements at positions m  *)
(* and m-1 when L is even and the element at position m when L is odd; the  *)
(* rule gives defocus_u, defocus_v, defocus_angle (the three sequences of   *)
(* one length L when astigmatism is estimated; the one sequence present     *)
(* otherwise) and phase_shift.                                              *)
(***************************************************************************)
C14_MedianOfMiddle ==
    pc = "iterated" =>
        /\ U # <<>> => raw[1].defocus[1] = MedianOfMiddle(U)
        /\ (U = <<>> /\ V # <<>>) =>
              (raw[1].defocus[1] = MedianOfMiddle(V) /\
               raw[1].defocus[2] = MedianOfMiddle(V))
        /\ (U # <<>> /\ V # <<>> /\ Len(V) = Len(U)) =>
              raw[1].defocus[2] = MedianOfMiddle(V)
        /\ (U # <<>> /\ V # <<>> /\ Len(Angle) = Len(U)) =>
              raw[1].defocus[3] = MedianOfMiddle(Angle)
        /\ Phase # <<>> => raw[1].phase_shift[1] = MedianOfMiddle(Phase)

\* [5.0, 3.0, 1.0] gave 3.0 and [1.0, 2.0, 3.0] gave 2.0; the angles [1.0, 3.0,
\* 5.0] gave 3.0.
C14_Witness ==
    /\ pc = "iterated"
    /\ U = <<Num(5), Num(3), Num(1)>>
    /\ Len(V) = 3
    /\ Angle = <<Num(1), Num(3), Num(5)>>
    /\ Phase = <<Num(1), Num(2), Num(3)>>
    /\ raw[1].defocus[1] = Num(3)
    /\ raw[1].defocus[3] = Num(3)
    /\ raw[1].phase_shift[1] = Num(2)

(***************************************************************************)
(* Vocabulary of the claims about the series.                               *)
(***************************************************************************)
Table == defocus_file_to_table(Lines)

\* The series have been built (the refactorer returned).
SeriesBuilt ==
    \/ pc \in {"loaded", "loop", "returned"}
    \/ pc = "raised" /\ n_imgs # Unread

\* The rows of the table whose range [int(col0), int(col1)] holds index, in
\* table order.
RowsAt(index) ==
    LET Covers(row) == PyInt(row[1]) <= index /\ index <= PyInt(row[2])
    IN SelectSeq(Table, Covers)

\* factor x column c (0-based) of each of these rows.
ValuesAt(index, c, factor) ==
    [k \in 1..Len(RowsAt(index)) |-> factor * RowsAt(index)[k][c + 1]]

\* The series holds, at every index, exactly these values, and no other index.
SeriesOf(dictionary, c, factor) ==
    /\ \A index \in 0..(MaxImgs + 1) :
          DictGet(dictionary, index) = ValuesAt(index, c, factor)
    /\ DOMAIN dictionary = {index \in 0..(MaxImgs + 1) : RowsAt(index) # <<>>}

(***************************************************************************)
(* C15: range expansion.  For every table row with start = int(col0) and    *)
(* end = int(col1) the transformed value is appended to the parameter's     *)
(* series at every index of [start, end]: the series at index i has one     *)
(* entry per row whose range covers i, in table row order.                  *)
(***************************************************************************)
C15_RangeExpansion ==
    SeriesBuilt =>
        /\ SeriesOf(defocus_u_dict, 4, 10)
        /\ defocusFileFlag \in {1, 5} =>
              (SeriesOf(defocus_v_dict, 5, 10) /\ SeriesOf(defocus_angle_dict, 6, 1))
        /\ defocusFileFlag = 4 => SeriesOf(phase_shift_dict, 5, 1)
        /\ defocusFileFlag = 5 => SeriesOf(phase_shift_dict, 7, 1)

\* A flag-0 table of a row over [1, 2] and a row over [2, 2] with another value.
C15_Witness ==
    /\ pc = "loaded"
    /\ defocusFileFlag = 0
    /\ Len(Table) = 2
    /\ Len(DictGet(defocus_u_dict, 1)) = 1
    /\ Len(DictGet(defocus_u_dict, 2)) = 2
    /\ DictGet(defocus_u_dict, 2)[1] = DictGet(defocus_u_dict, 1)[1]
    /\ DictGet(defocus_u_dict, 2)[2] # DictGet(defocus_u_dict, 2)[1]

(***************************************************************************)
(* C16: the table reader drops the first line exactly when the file is      *)
(* multi-line with a second line that does not have 5 tokens (the first     *)
(* line is then no data row but the flag/format header); when the file has  *)
(* one line or the second line has 5 tokens the first line is kept with its *)
(* last token removed; every later line is kept with all its tokens, in     *)
(* file order.                                                              *)
(***************************************************************************)
C16_TableReader ==
    defocus_file # NoFile =>
        LET first_is_data == Len(Lines) = 1 \/ Len(Lines[2]) = 5
            first == SubSeq(Lines[1], 1, Len(Lines[1]) - 1)
        IN /\ first_is_data => Table = <<first>> \o Tail(Lines)
           /\ ~first_is_data => Table = Tail(Lines)
           /\ Len(Table) = (IF first_is_data THEN Len(Lines) ELSE Len(Lines) - 1)

\* The series were built from a kept first line, and from a table without it.
C16_Witness ==
    /\ pc = "loaded"
    /\ Len(Lines) = 2
    /\ Len(Lines[2]) = 5
    /\ Len(Lines[1]) = 6
    /\ Len(Table) = 2
    /\ Len(Table[1]) = 5
    /\ Table[1][1] # 0

(***************************************************************************)
(* C17 (as claimed): every series built by a refactorer has an index domain *)
(* that is a subset of [1, n_images], whatever the table (rows whose start  *)
(* or end lies outside 1..n_images included).  The refactorers are not      *)
(* given n_images: a row over [1, 2] of a one-image series leaves index 2   *)
(* in the series.                                                           *)
(***************************************************************************)
C17_DomainWithinImages ==
    SeriesBuilt =>
        /\ DOMAIN defocus_u_dict \subseteq 1..ts_n_imgs
        /\ DOMAIN defocus_v_dict \subseteq 1..ts_n_imgs
        /\ DOMAIN defocus_angle_dict \subseteq 1..ts_n_imgs
        /\ DOMAIN phase_shift_dict \subseteq 1..ts_n_imgs

WrapOnce(angle) ==
    IF angle >= Num(180) THEN angle - Num(180)
    ELSE IF angle < 0 THEN angle + Num(180) ELSE angle

FileWritten == pc # "writer" /\ err # "CountMismatch"

\* x is num/den printed with the decimals of step: a multiple of step, no
\* further than half a step from num/den.
Printed(x, num, den, step) ==
    /\ x % step = 0
    /\ 2 * Abs(x * den - num) <= step * den

(***************************************************************************)
(* C21: on success cets_to_imod writes a file of exactly n+1 lines for n    *)
(* records: the header "1 0 0.0 0.0 0.0 3" first, then for the i-th record  *)
(* (i = 1..n, in input order) one line "i i tilt_i tilt_i defocus_u/10      *)
(* defocus_v/10 defocus_angle", tilt_i the i-th tilt angle (the tilt and    *)
(* the angle printed with 2 decimals, the defocus values with 1).           *)
(***************************************************************************)
C21_FileWritten ==
    (pc = "idle" /\ FileWritten) =>
        /\ Len(Lines) = Len(md_list) + 1
        /\ Lines[1] = <<Num(1), 0, 0, 0, 0, Num(3)>>
        /\ \A k \in 1..Len(md_list) :
              LET line == Lines[k + 1] IN
              /\ Len(line) = 7
              /\ line[1] = Num(k)
              /\ line[2] = Num(k)
              /\ Printed(line[3], tilt_angle_list[k], 1, 10)
              /\ line[4] = line[3]
              /\ Printed(line[5], md_list[k].defocus_u, 10, 100)
              /\ Printed(line[6], md_list[k].defocus_v, 10, 100)
              /\ Printed(line[7], md_list[k].defocus_angle, 1, 10)

\* Two records with different defocus pairs, over a file that was there before.
C21_Witness ==
    /\ pc = "idle"
    /\ FileWritten
    /\ Len(md_list) = 2
    /\ Len(Lines) = 3
    /\ md_list[1].defocus_u # md_list[2].defocus_u
    /\ Lines[2][5] # Lines[3][5]
    /\ Lines[3][3] # Lines[2][3]

(***************************************************************************)
(* C28: the reverse path loses the phase shift.  For any non-empty record   *)
(* sequence the file written by cets_to_imod is detected as flag 1 when     *)
(* re-parsed, and every re-parsed record has phase_shift = 0 whatever       *)
(* phase_shift the written records had.                                     *)
(***************************************************************************)
C28_PhaseShiftLost ==
    (FileWritten /\ Len(md_list) >= 1) =>
        /\ defocusFileFlag # Unread => defocusFileFlag = 1
        /\ phase_shift_dict = EmptyDict
        /\ Done =>
              /\ pc = "returned"
              /\ Len(Records) = Len(md_list)
              /\ \A k \in 1..Len(Records) : Records[k].phase_shift = 0

\* Records with a phase shift of 5 came back with none.
C28_Witness ==
    /\ FileWritten
    /\ pc = "returned"
    /\ Len(md_list) = 2
    /\ \A k \in 1..2 : md_list[k].phase_shift = 5000
    /\ \A k \in 1..2 : Records[k].phase_shift = 0

(***************************************************************************)
(* Vocabulary of the claim about the flag-37 refactorer.                    *)
(***************************************************************************)
\* The table without its column 8 (0-based).
DropColumn8(table) == [k \in 1..Len(table) |-> SubSeq(table[k], 1, 8)]

\* The table with x as the cut-on frequency of every row.
WithCutOn(table, x) == [k \in 1..Len(table) |-> [table[k] EXCEPT ![9] = x]]

\* A flag-37 file whose table is 9 columns wide.
NineColumnTable ==
    /\ defocusFileFlag = 37
    /\ Len(Table) >= 1
    /\ \A k \in 1..Len(Table) : Len(Table[k]) = 9

(***************************************************************************)
(* C23: the flag-37 refactorer applied to a 9-column table produces exactly *)
(* the four series (defocus_u, defocus_v, defocus_angle, phase_shift) that  *)
(* the flag-5 refactorer produces for the same table with column 8 removed; *)
(* the cut-on frequency influences no series.                               *)
(***************************************************************************)
C23_Flag37AsFlag5 ==
    NineColumnTable =>
        LET r37 == refactor_ctf_flag_37(Table)
            r5 == refactor_ctf_flag_5(DropColumn8(Table))
        IN /\ r37.err = "none"
           /\ r5.err = "none"
           /\ Len(r37.val) = 4
           /\ \A s \in 1..4 : r37.val[s] = r5.val[s]
           /\ \A x \in {0, Num(9)} :
                 refactor_ctf_flag_37(WithCutOn(Table, x)) = r37

\* The refactorer has returned (its caller then fails to unpack the four
\* series) on two rows that differ in their cut-on frequency and overlap.
C23_Witness ==
    /\ NineColumnTable
    /\ pc = "raised"
    /\ err = "UnpackError"
    /\ Len(Table) = 2
    /\ Table[1][9] # Table[2][9]
    /\ Table[1][9] # Table[1][8]
    /\ Len(DictGet(refactor_ctf_flag_37(Table).val[4], 2)) = 2

(***************************************************************************)
(* Vocabulary of the claims about the coverage of the images.               *)
(***************************************************************************)
\* All four series are empty at index img.
Uncovered(img) ==
    /\ DictGet(defocus_u_dict, img) = <<>>
    /\ DictGet(defocus_v_dict, img) = <<>>
    /\ DictGet(defocus_angle_dict, img) = <<>>
    /\ DictGet(phase_shift_dict, img) = <<>>

\* Two series with the same index domain and, at every index, the same length.
SameShape(d1, d2) ==
    /\ DOMAIN d1 = DOMAIN d2
    /\ \A index \in DOMAIN d1 : Len(d1[index]) = Len(d2[index])

(***************************************************************************)
(* C24: if some image index i in 1..n_images is covered by no table row     *)
(* (all four series are empty at i), imod_to_cets raises instead of         *)
(* emitting a record with default values for that image; it returns a list  *)
(* only when every index 1..n_images is covered by at least one row.        *)
(***************************************************************************)
C24_UncoveredRaises ==
    /\ pc = "returned" =>
          /\ Len(Records) = ts_n_imgs
          /\ \A img \in 1..ts_n_imgs : ~Uncovered(img) /\ RowsAt(img) # <<>>
    /\ (Done /\ SeriesBuilt /\ \E img \in 1..ts_n_imgs : Uncovered(img)) =>
          /\ pc = "raised"
          /\ ret = NoValue
          /\ yaml_file = NoFile
    /\ (pc = "raised" /\ SeriesBuilt /\ i \in 1..ts_n_imgs /\ Uncovered(i)) =>
          /\ err = "IndexError"
          /\ Len(ctf_md_list) = i - 1

\* The first image is covered and reduced, the second is covered by no row.
C24_Witness ==
    /\ pc = "raised"
    /\ SeriesBuilt
    /\ err = "IndexError"
    /\ ts_n_imgs = 2
    /\ i = 2
    /\ ~Uncovered(1)
    /\ Uncovered(2)
    /\ Len(ctf_md_list) = 1

(***************************************************************************)
(* C25: all series returned by one refactorer call have the same index      *)
(* domain and, at every index, the same length; consequently, on the full   *)
(* conversion path, whenever defocus_u and defocus_v are both non-empty for *)
(* an image, len(u) = len(v) = len(angle) and the defocus length check      *)
(* cannot fail.                                                             *)
(***************************************************************************)
C25_SeriesSameShape ==
    SeriesBuilt =>
        /\ defocusFileFlag \in {1, 5} =>
              /\ SameShape(defocus_u_dict, defocus_v_dict)
              /\ SameShape(defocus_u_dict, defocus_angle_dict)
        /\ defocusFileFlag \in {4, 5} =>
              SameShape(defocus_u_dict, phase_shift_dict)
        /\ \A img \in 1..ts_n_imgs :
              LET u == DictGet(defocus_u_dict, img)
                  v == DictGet(defocus_v_dict, img)
                  angle == DictGet(defocus_angle_dict, img)
              IN (u # <<>> /\ v # <<>>) =>
                    /\ Len(u) = Len(v)
                    /\ Len(v) = Len(angle)
                    /\ reduce_defocus(u, v, angle).err = "none"

\* Two overlapping rows of a flag-5 file: two values in each series at image 2,
\* one at image 1.
C25_Witness ==
    /\ pc = "loop"
    /\ defocusFileFlag = 5
    /\ Len(DictGet(defocus_u_dict, 2)) = 2
    /\ Len(DictGet(defocus_v_dict, 2)) = 2
    /\ Len(DictGet(phase_shift_dict, 2)) = 2
    /\ Len(DictGet(defocus_angle_dict, 1)) = 1

(***************************************************************************)
(* C26: the flag detector and the table reader agree on every file with at  *)
(* least one line: the reader excludes line 0 from the table exactly when   *)
(* the detector takes the flag from the first token of line 0, and keeps    *)
(* line 0 (minus its last token) exactly when the detector returns the      *)
(* structural flag 0.                                                       *)
(***************************************************************************)
C26_DetectorAndReaderAgree ==
    defocusFileFlag # Unread =>
        LET structural == Len(Lines) = 1 \/ Len(Lines[2]) = 5
            excluded == Len(Table) = Len(Lines) - 1 /\ Table = Tail(Lines)
            kept == /\ Len(Table) = Len(Lines)
                    /\ Table[1] = PyPop(Lines[1])
                    /\ Tail(Table) = Tail(Lines)
        IN /\ excluded \/ kept
           /\ excluded <=> ~structural
           /\ kept <=> structural
           /\ excluded => defocusFileFlag = PyInt(Lines[1][1])
           /\ kept => defocusFileFlag = 0

\* A file of two data lines, the first with the mode token: line 0 is kept and
\* the flag is 0 although the first token of line 0 is 1.
C26_Witness ==
    /\ defocusFileFlag = 0
    /\ Len(Lines) = 2
    /\ Len(Lines[1]) = 6
    /\ Len(Lines[2]) = 5
    /\ Len(Table) = 2
    /\ PyInt(Lines[1][1]) = 1

(***************************************************************************)
(* C27: standarize_defocus is idempotent on every input whose angle lies in *)
(* [-180, 270): applying it to its own output returns that output           *)
(* unchanged.                                                               *)
(***************************************************************************)
C27_StandarizeIdempotent ==
    (std_out # NoValue /\ Num(-180) <= std_in[1][3] /\ std_in[1][3] < Num(270)) =>
        LET out == std_out[1] IN
        standarize_defocus(out[1], out[2], out[3]) = out

\* An exchanged pair at the upper end of the range: 269 + 90 wraps to 179.
C27_Witness ==
    /\ std_out # NoValue
    /\ std_in[1] = <<100000, 125000, Num(269)>>
    /\ std_out[1] = <<125000, 100000, Num(179)>>

(***************************************************************************)
(* parse_tlt_file (utils.py:99-132) and get_acq_order_from_doses            *)
(* (utils.py:158-168), taken on their own.  A tilt-angle file is a sequence *)
(* of lines, each the sequence of its tokens: blank, "angle", "angle dose"  *)
(* or "angle dose order".                                                   *)
(***************************************************************************)
MaxTltLines == 3

\* np.argsort(dose_list): the 0-based positions of the doses in ascending
\* order of dose.  The default kind of sort is not stable, so positions with
\* equal doses may come out in any order: the set of the possible results.
argsort(dose_list) ==
    LET n == Len(dose_list) IN
    {p \in [1..n -> 0..(n - 1)] :
        /\ \A a, b \in 1..n : a # b => p[a] # p[b]
        /\ \A a \in 1..(n - 1) : dose_list[p[a] + 1] <= dose_list[p[a + 1] + 1]}

\* The loop of utils.py:164-166 from index on (the source's i):
\* acq_order_list[finalIndex] = i + 1.
RECURSIVE AssignOrders(_, _, _)
AssignOrders(acq_order_list, dose_list_sorted, index) ==
    IF index >= Len(dose_list_sorted) THEN acq_order_list
    ELSE LET finalIndex == dose_list_sorted[index + 1] IN
         AssignOrders([acq_order_list EXCEPT ![finalIndex + 1] = index + 1],
                      dose_list_sorted, index + 1)

\* Mutant: the sorted positions themselves are taken as the orders,
\* acq_order_list[i] = finalIndex + 1.
get_acq_order_from_doses_positions(dose_list) ==
    {[k \in 1..Len(dose_list) |-> dose_list_sorted[k] + 1] :
        dose_list_sorted \in argsort(dose_list)}

\* The set of the lists get_acq_order_from_doses may return.
get_acq_order_from_doses(dose_list) ==
    {AssignOrders([k \in 1..Len(dose_list) |-> 0], dose_list_sorted, 0) :
        dose_list_sorted \in argsort(dose_list)}

\* The column (0-based) of the lines that have more than column tokens, blank
\* lines ignored.
RECURSIVE TltColumn(_, _)
TltColumn(lines, column) ==
    IF lines = <<>> THEN <<>>
    ELSE LET columns == Head(lines) IN
         (IF Len(columns) > column THEN <<columns[column + 1]>> ELSE <<>>)
             \o TltColumn(Tail(lines), column)

\* The set of the triples (angles, doses, orders) parse_tlt_file may return.
parse_tlt_file(lines) ==
    LET angles == TltColumn(lines, 0)
        doses == TltColumn(lines, 1)
        column2 == TltColumn(lines, 2)
        orders == [k \in 1..Len(column2) |-> PyInt(column2[k])]
    IN IF orders # <<>>
       THEN {[angles |-> angles, doses |-> doses, orders |-> orders]}
       ELSE IF doses # <<>>
       THEN {[angles |-> angles, doses |-> doses, orders |-> o] :
                o \in get_acq_order_from_doses(doses)}
       ELSE {[angles |-> angles, doses |-> doses, orders |-> orders]}

\* The doses of the modelled files: 0, 1.5 and 3.
TltDoses == {0, Num(3) \div 2, Num(3)}

\* The lines a modelled file may have at (1-based) position k.
TltLine(k) ==
    {<<>>, <<Num(3 * k)>>}
        \cup {<<Num(3 * k), d>> : d \in TltDoses}
        \cup {<<Num(3 * k), d, Num(k)>> : d \in TltDoses}

TltFiles ==
    UNION {{f \in [1..n -> UNION {TltLine(k) : k \in 1..n}] :
               \A k \in 1..n : f[k] \in TltLine(k)} : n \in 0..MaxTltLines}

InitTlt ==
    /\ tlt_file \in {Some(f) : f \in TltFiles}
    /\ tlt_out = NoValue
    /\ pc = "tlt"
    /\ defocus_file = NoFile
    /\ ts_n_imgs = 0
    /\ yaml_file = NoFile
    /\ md_list = <<>>
    /\ tilt_angle_list = <<>>
    /\ out_yaml_file = None
    /\ defocusFileFlag = Unread
    /\ defocus_u_dict = EmptyDict
    /\ defocus_v_dict = EmptyDict
    /\ defocus_angle_dict = EmptyDict
    /\ phase_shift_dict = EmptyDict
    /\ n_imgs = Unread
    /\ i = 0
    /\ ctf_md_list = <<>>
    /\ ret = NoValue
    /\ err = "none"
    /\ yaml_outcome = NoValue
    /\ NoTsArgs
    /\ NoIteration
    /\ std_in = NoValue
    /\ std_out = NoValue

\* tilt_angles, dose_list, acq_orders = parse_tlt_file(tlt_file)
ParseTlt ==
    /\ pc = "tlt"
    /\ \E r \in parse_tlt_file(tlt_file[1]) : tlt_out' = Some(r)
    /\ pc' = "tlt_done"
    /\ UNCHANGED ts_args
    /\ UNCHANGED iteration
    /\ UNCHANGED yaml_outcome
    /\ UNCHANGED <<defocus_file, ts_n_imgs, yaml_file, md_list, tilt_angle_list,
                   out_yaml_file, defocusFileFlag, defocus_u_dict, defocus_v_dict,
                   defocus_angle_dict, phase_shift_dict, n_imgs, i, ctf_md_list,
                   ret, err, std_in, std_out, tlt_file>>

NextTlt == ParseTlt

SpecTlt == InitTlt /\ [][NextTlt]_vars

(***************************************************************************)
(* Vocabulary of the claim about the acquisition orders.                    *)
(***************************************************************************)
\* The file has a dose column but no acquisition-order column.
DoseColumnOnly ==
    /\ \E k \in 1..Len(tlt_file[1]) : Len(tlt_file[1][k]) >= 2
    /\ \A k \in 1..Len(tlt_file[1]) : Len(tlt_file[1][k]) <= 2

(***************************************************************************)
(* C22: when a tilt-angle file has a dose column but no acquisition-order   *)
(* column, the acquisition orders are derived from the doses by sorting     *)
(* ascending and assigning rank+1: the result is a permutation of 1..n of   *)
(* the same length as the dose list, and dose[i] < dose[j] implies          *)
(* order[i] < order[j].                                                     *)
(***************************************************************************)
C22_OrdersFromDoses ==
    (tlt_out # NoValue /\ DoseColumnOnly) =>
        LET doses == tlt_out[1].doses
            orders == tlt_out[1].orders
            n == Len(doses)
        IN /\ n = Cardinality({k \in 1..Len(tlt_file[1]) : Len(tlt_file[1][k]) >= 2})
           /\ Len(orders) = n
           /\ {orders[k] : k \in 1..n} = 1..n
           /\ \A a, b \in 1..n : doses[a] < doses[b] => orders[a] < orders[b]

\* Doses 1.5, 3, 0: the orders are 2, 3, 1, while the sorted positions are
\* 3, 1, 2.
C22_Witness ==
    /\ tlt_out # NoValue
    /\ DoseColumnOnly
    /\ tlt_out[1].doses = <<Num(3) \div 2, Num(3), 0>>
    /\ tlt_out[1].orders = <<2, 3, 1>>

(***************************************************************************)
(* Repeated conversions into one yaml file: imod_to_cets called again on    *)
(* the object once it has returned, the yaml file holding at the start      *)
(* nothing or blocks written by something else.                             *)
(***************************************************************************)
\* The defocus files of these runs: a header and one row, or one row.
YamlFiles == {f \in Files : Len(f) <= 2}

\* What the yaml file may hold before the first call.
OldBlocks == <<CTFMetadata(Num(7), Num(7), 0, 0), CTFMetadata(Num(8), Num(7), 0, 0),
               CTFMetadata(Num(9), Num(7), 0, 0)>>

InitYaml ==
    /\ defocus_file \in {Some(f) : f \in YamlFiles}
    /\ ts_n_imgs \in 1..MaxImgs
    /\ yaml_file \in {NoFile, Some(OldBlocks)}
    /\ md_list = <<>>
    /\ tilt_angle_list = <<>>
    /\ pc = "idle"
    /\ out_yaml_file = None
    /\ Locals
    /\ NoTlt
    /\ yaml_outcome = NoValue
    /\ NoTsArgs
    /\ NoIteration
    /\ std_in = NoValue
    /\ std_out = NoValue

\* imod_to_cets(out_yaml_file=out) called on an object whose earlier call
\* returned: _parse_defocus_file starts again with fresh locals.
ImodToCetsAgain(out) ==
    /\ pc = "returned"
    /\ defocus_file # NoFile
    /\ pc' = "parse"
    /\ out_yaml_file' = out
    /\ defocusFileFlag' = Unread
    /\ defocus_u_dict' = EmptyDict
    /\ defocus_v_dict' = EmptyDict
    /\ defocus_angle_dict' = EmptyDict
    /\ phase_shift_dict' = EmptyDict
    /\ n_imgs' = Unread
    /\ i' = 0
    /\ ctf_md_list' = <<>>
    /\ ret' = NoValue
    /\ err' = "none"
    /\ yaml_outcome' = NoValue
    /\ UNCHANGED ts_args
    /\ UNCHANGED tlt_vars
    /\ UNCHANGED iteration
    /\ UNCHANGED <<defocus_file, ts_n_imgs, yaml_file, md_list, tilt_angle_list,
                   std_in, std_out>>

NextYaml ==
    \/ \E out \in {None, "out.yaml"} : ImodToCets(out)
    \/ LoadSeries
    \/ GetTsNoImgs
    \/ ReduceImage
    \/ WriteYamlAndReturn
    \/ \E out \in {None, "out.yaml"} : ImodToCetsAgain(out)

SpecYaml == InitYaml /\ [][NextYaml]_vars

(***************************************************************************)
(* Vocabulary of the claims about the yaml output.                          *)
(***************************************************************************)
\* The write of the running call went through / met an error.
YamlWritten == yaml_outcome # NoValue /\ yaml_outcome[1].ok
YamlFailed == yaml_outcome # NoValue /\ ~yaml_outcome[1].ok

\* The list the loop builds from the series, whatever is done with the yaml
\* file: one reduced record per image, in image order.
ConvertedList ==
    [img \in 1..ts_n_imgs |->
        reduce_image(DictGet(defocus_u_dict, img), DictGet(defocus_v_dict, img),
                     DictGet(phase_shift_dict, img),
                     DictGet(defocus_angle_dict, img)).val]

(***************************************************************************)
(* C29: writing the YAML output replaces, not extends: after a successful   *)
(* imod_to_cets(out_yaml_file=f) the file f holds exactly one block per     *)
(* record of that call, in image order, whatever f contained before;        *)
(* calling the conversion twice with the same f leaves n_images blocks, not *)
(* 2 x n_images.                                                            *)
(***************************************************************************)
C29_YamlReplaced ==
    YamlWritten =>
        /\ pc = "returned"
        /\ yaml_file # NoFile
        /\ Len(yaml_file[1]) = ts_n_imgs
        /\ yaml_file[1] = Records

\* The second of two calls with the same file: before it the file held the
\* two blocks of the first call, after it it holds two blocks again.
C29_Witness ==
    /\ YamlWritten
    /\ pc = "returned"
    /\ ts_n_imgs = 2
    /\ yaml_outcome[1].before = Some(Records)
    /\ yaml_file = Some(Records)
    /\ Len(yaml_file[1]) = 2

(***************************************************************************)
(* C30: a failure while writing the YAML output file is not fatal to the    *)
(* conversion: imod_to_cets still returns the complete list of records it   *)
(* built, identical to the list returned when out_yaml_file is None.        *)
(***************************************************************************)
C30_YamlFailureNotFatal ==
    /\ YamlFailed =>
          /\ pc = "returned"
          /\ err = "none"
          /\ out_yaml_file # None
          /\ Len(Records) = ts_n_imgs
          /\ Records = ConvertedList
    /\ (pc = "returned" /\ out_yaml_file = None) =>
          /\ yaml_outcome = NoValue
          /\ Records = ConvertedList
    /\ (pc = "loop" /\ i > n_imgs) => ctf_md_list = ConvertedList

\* The write failed after the first of two blocks, over a file that held
\* other blocks: both records are returned all the same.
C30_Witness ==
    /\ YamlFailed
    /\ pc = "returned"
    /\ ts_n_imgs = 2
    /\ Len(Records) = 2
    /\ yaml_outcome[1].before = Some(OldBlocks)
    /\ yaml_file = Some(<<Records[1]>>)

====
